---- MODULE Spec2Model ----
(***************************************************************************)
(* A model of @asleepace/try (src/src/index.ts): the Res result tuple and  *)
(* the Try.catch execution wrapper.                                        *)
(*                                                                         *)
(* JavaScript values are records [t, id, name, s]:                         *)
(*   t    - the kind of value ("undefined", "null", "number", "boolean",   *)
(*          "string", "object", "error", "promise", "result")              *)
(*   id   - the identity of an object (0 for primitives); for "result" and *)
(*          "promise" the index into the heaps `results` / `promises`      *)
(*   name - the `name` of an Error; for a plain object "Object", and       *)
(*          "null-prototype" for an object without toString/valueOf,       *)
(*          "thenable" for an object with a then method that is no         *)
(*          Promise, "Instance" for an instance of an application class    *)
(*   s    - the literal of a primitive, the `message` of an Error          *)
(*                                                                         *)
(* A run works with one input value (`input`, drawn in Init): its thunks   *)
(* return it, throw it, or return a promise the host fulfils or rejects    *)
(* with it.  `last` records the latest call of the public API and how it   *)
(* completed.  Spec is the library's API and the host; SpecSync leaves the *)
(* host out, SpecAsync leaves the reads of a Result and the handler out,   *)
(* SpecHandler is the builders of failures under a handler that changes,   *)
(* SpecNested is Try.catch with nested calls and nested promises,          *)
(* SpecNormalize is the normalization of causes alone, SpecInvocable is    *)
(* Try.catch with arguments that are not functions, SpecLive is the        *)
(* deferred path under a host that keeps running reactions, and SpecArray  *)
(* adds the methods a Res instance inherits from Array.                    *)
(***************************************************************************)
EXTENDS Integers, Sequences, FiniteSets, TLC

\* ------------------------------------------------------------------ bounds
MaxResults == 2     \* Res instances built, or still to be built, in one run

\* ------------------------------------------------------------ JS values
Prim(t, s) == [t |-> t, id |-> 0, name |-> "", s |-> s]
Undefined == Prim("undefined", "undefined")
Null == Prim("null", "null")
None == Prim("none", "")          \* "no value": not a JavaScript value
ErrorObj(id, name, msg) == [t |-> "error", id |-> id, name |-> name, s |-> msg]
Obj(id, name) == [t |-> "object", id |-> id, name |-> name, s |-> ""]
ResultRef(r) == [t |-> "result", id |-> r, name |-> "", s |-> ""]
PromiseRef(p) == [t |-> "promise", id |-> p, name |-> "", s |-> ""]

\* Objects the embedding program creates before it calls the library; the
\* Error objects the library and the engine create get later identities.
PlainObj == Obj(1, "Object")                             \* {}
NullProtoObj == Obj(PlainObj.id + 1, "null-prototype")   \* Object.create(null)
Thenable == Obj(NullProtoObj.id + 1, "thenable")         \* { then(f) {...} }
Instance == Obj(Thenable.id + 1, "Instance")             \* new ctor(...args)
E1 == ErrorObj(Instance.id + 1, "Error", "boom")         \* new Error('boom')
E2 == ErrorObj(E1.id + 1, "TypeError", "")               \* new TypeError()
Other == ErrorObj(E2.id + 1, "Error", "other")           \* new Error('other')
FirstFreshId == Other.id + 1

\* The value the embedding program's thunks return, throw, fulfil or reject
\* with in one run (any JavaScript value can be returned as well as thrown).
Inputs ==
    { Undefined, Null, Prim("number", "0"), Prim("boolean", "false"),
      Prim("string", ""), Prim("number", "404"), Prim("string", "boom"),
      PlainObj, NullProtoObj, Thenable, E1, E2 }
\* The fallback handed to unwrapOr.
Fallbacks == { Other }

\* ------------------------------------------------- completions of a call
Normal(v) == [thrown |-> FALSE, v |-> v]
Throw(v) == [thrown |-> TRUE, v |-> v]

\* ---------------------------------------------------------------- state
VARIABLES
    results,      \* heap of Res instances: results[r] = <<slot 0, slot 1>>
    promises,     \* heap of promises: [state, v, reaction, child]
    jobs,         \* the host's queue of promise reaction jobs
    Res_toError,  \* the static property Res.toError (replaced by onException)
    nextId,       \* identity given to the next Error object created
    last,         \* the last call made by the embedding code and its outcome
    input         \* the value the embedding program's thunks work with

vars == <<results, promises, jobs, Res_toError, nextId, last, input>>
ReturnValues == {input}
Causes == {input}

\* ---------------------------------------------------- engine: String(v)
\* The TypeError the engine raises when an object has no primitive value.
CannotConvert(id) == ErrorObj(id, "TypeError", "Cannot convert object to primitive value")

\* Error.prototype.toString
ErrorToString(e) ==
    IF e.name = "" THEN e.s
    ELSE IF e.s = "" THEN e.name
    ELSE e.name \o ": " \o e.s

\* String(v): the string coercion `new Error(String(exception))` relies on.
\* `id` is the identity of the TypeError created when the coercion fails.
String(v, id) ==
    CASE v.t \in {"undefined", "null", "number", "boolean", "string"} ->
            Normal(Prim("string", v.s))
      [] v.t = "error" -> Normal(Prim("string", ErrorToString(v)))
      [] v.t = "promise" -> Normal(Prim("string", "[object Promise]"))
      [] v.t = "object" /\ v.name \in {"Object", "thenable", "Instance"} ->
            Normal(Prim("string", "[object Object]"))
      [] v.t = "object" /\ v.name = "null-prototype" ->
            Throw(CannotConvert(id))

\* ------------------------------------------------------------------ Res
\* exception instanceof Error
isError(exception) == exception.t = "error"

\* Mutant of toError: every cause, an Error too, is wrapped in a new Error.
toError_alwaysWraps(exception, id) ==
    LET str == String(exception, id)
    IN  IF str.thrown THEN str
        ELSE Normal(ErrorObj(id, "Error", str.v.s))

\* The initial value of Res.toError.
toError(exception, id) ==
    IF isError(exception)
    THEN Normal(exception)
    ELSE LET str == String(exception, id)
         IN  IF str.thrown THEN str
             ELSE Normal(ErrorObj(id, "Error", str.v.s))

\* A handler an application installs with Try.onException: it wraps every
\* cause, Error or not, in an error of its own.
Handled(exception, id) == Normal(ErrorObj(id, "HandledError", "handled"))

Handlers == {"toError", "Handled"}

\* Mutant of call_toError: the handler installed is ignored.
call_toError_default(exception, id) == toError(exception, id)

\* The function named h applied to a cause.
apply(h, exception, id) ==
    IF h = "toError" THEN toError(exception, id)
    ELSE Handled(exception, id)

\* Res.toError(exception), whatever function is currently installed.
call_toError(exception, id) == apply(Res_toError, exception, id)

\* Mutant of constructor: the two values are pushed behind the two empty
\* slots super(2) made.
constructor_push(tuple) == <<Undefined, Undefined, tuple[1], tuple[2]>>

\* new Res([value, error]): the two slots of the new instance.
constructor(tuple) == <<tuple[1], tuple[2]>>

\* Res.from(tuple)
from(tuple) == constructor(tuple)

\* Mutant of ok: a falsy value is taken for "no value" (value || undefined).
ok_truthy(v) ==
    Normal(from(<<IF v.t \in {"undefined", "null"} \/ v.s \in {"0", "false"}
                    \/ (v.t = "string" /\ v.s = "")
                  THEN Undefined ELSE v, Undefined>>))

\* Mutant of ok: a returned Error is filed as a failure (result instanceof Error).
ok_errorIsFailure(v) ==
    IF v.t = "error" THEN Normal(from(<<Undefined, v>>))
    ELSE Normal(from(<<v, Undefined>>))

\* Res.ok(value): the instance built; it never throws.
ok(v) == Normal(from(<<v, Undefined>>))

\* Mutant of err: the raw cause is kept in slot 0 next to the error.
err_keepsCause(exception, id) ==
    LET e == call_toError(exception, id)
    IN  IF e.thrown THEN e ELSE Normal(from(<<exception, e.v>>))

\* Res.err(exception): the instance built, or what the normalization threw.
err(exception, id) ==
    LET e == call_toError(exception, id)
    IN  IF e.thrown THEN e ELSE Normal(from(<<Undefined, e.v>>))

\* this[i] of the instance results[r]: undefined beyond its length.
Index(r, i) == IF i + 1 \in DOMAIN results[r] THEN results[r][i + 1] ELSE Undefined
\* this.length
length(r) == Len(results[r])
\* const [a, b] = result: the first two elements the array iterator yields.
destructure(r) ==
    [i \in 1 .. 2 |-> IF i <= length(r) THEN results[r][i] ELSE Undefined]

\* The ok getter of an instance not yet on the heap.
isOk_of(tuple) == tuple[2] = Undefined

\* Mutant of value: the getter reads the other slot.
value_swapped(r) == Index(r, 1)

\* Mutant of isErr: a failure is recognised by its missing value.
isErr_noValue(r) == Index(r, 0) = Undefined

\* The getters and predicates of the instance results[r].
value(r) == Index(r, 0)
error(r) == Index(r, 1)
get_ok(r) == error(r) = Undefined
isOk(r) == error(r) = Undefined
isErr(r) == error(r) # Undefined

\* Mutant of unwrap: a failure is swallowed and the empty slot 0 returned.
unwrap_neverThrows(r) == Normal(value(r))

\* unwrap(): the value, or the stored error re-thrown.
unwrap(r) == IF isOk(r) THEN Normal(value(r)) ELSE Throw(error(r))

\* Mutant of unwrapOr: this.value || fallback
unwrapOr_truthy(r, fallback) ==
    IF value(r).t \in {"undefined", "null"} \/ value(r).s \in {"0", "false"}
        \/ (value(r).t = "string" /\ value(r).s = "")
    THEN fallback ELSE value(r)

\* unwrapOr(fallback): this.value ?? fallback
unwrapOr(r, fallback) ==
    IF value(r) \in {Undefined, Null} THEN fallback ELSE value(r)

\* Mutant of toString: a failure renders the message of its error only.
toString_message(r, id) ==
    IF get_ok(r)
    THEN LET str == String(value(r), id)
         IN  IF str.thrown THEN str
             ELSE Normal(Prim("string", "Result.Ok(" \o str.v.s \o ")"))
    ELSE Normal(Prim("string", "Result.Error(" \o error(r).s \o ")"))

\* toString(): `Result.Ok(${String(this.value)})` or `Result.Error(${this.error})`;
\* `id` is the identity of the TypeError created when a coercion fails.
toString(r, id) ==
    LET str == String(IF get_ok(r) THEN value(r) ELSE error(r), id)
    IN  IF str.thrown THEN str
        ELSE Normal(Prim("string",
                (IF get_ok(r) THEN "Result.Ok(" ELSE "Result.Error(") \o str.v.s \o ")"))

\* ---------------------------------------------------------------- calls
\* A thunk is what it does when invoked: return v, throw v, or return a new
\* promise that the host settles later.
NoThunk == [act |-> "none", v |-> None]
Thunks ==
    [act : {"return"}, v : ReturnValues] \cup [act : {"throw"}, v : Causes]
        \cup {[act |-> "promise", v |-> None]}

\* The record of a call: the operation, its thunk, receiver and argument,
\* its completion, how often the thunk was invoked, and whether it wrote to
\* the console.
Call(op, fn, recv, arg, out, invoked, warned) ==
    [op |-> op, fn |-> fn, recv |-> recv, arg |-> arg, out |-> out,
     invoked |-> invoked, warned |-> warned]

\* Deferred calls whose Result is still to be built: room is kept for them.
Reserved ==
    Cardinality({p \in DOMAIN promises :
                    promises[p].reaction = "none" /\ promises[p].state = "pending"})
RoomForResult(n) == Len(results) + Reserved + n <= MaxResults
RoomForError(n) == (nextId - FirstFreshId) + Reserved + n <= MaxResults + 1
\* The promise heap holds the three promises of every deferred call and one
\* promise more.
RoomForPromise(n) == Len(promises) + n <= 3 * MaxResults + 1

\* The Error object a completion of Res.err carries.
errorOf(e) == IF e.thrown THEN e.v ELSE e.v[2]
\* Whether building that completion created a new Error object.
created(e) == errorOf(e).id = nextId

\* Mutant of Pending: the promise Try.catch returns is raced against a timeout
\* and rejects with it while the thunk's promise is still pending.
Pending_timedOut(reaction, child) ==
    [state |-> IF reaction = "none" THEN "rejected" ELSE "pending",
     v |-> IF reaction = "none" THEN Other ELSE None,
     reaction |-> reaction, child |-> child]

\* A new promise, not settled yet, with the reaction attached to it.
Pending(reaction, child) ==
    [state |-> "pending", v |-> None, reaction |-> reaction, child |-> child]

\* Mutant of isPromise: the check is left out, a promise is a value like any
\* other.
isPromise_never(output) == FALSE

\* output instanceof Promise
isPromise(output) == output.t = "promise"

\* Try.catch(fn); `op` and `recv` only say how the caller reached it.  A
\* thunk that returns a promise creates it (no reaction attached yet).
catch(op, fn, recv) ==
    CASE fn.act = "throw" ->
            LET e == err(fn.v, nextId)
            IN  /\ created(e) => RoomForError(1)
                /\ ~e.thrown => RoomForResult(1)
                /\ nextId' = IF created(e) THEN nextId + 1 ELSE nextId
                /\ results' = IF e.thrown THEN results ELSE Append(results, e.v)
                /\ last' = Call(op, fn, recv, None,
                                IF e.thrown THEN e
                                ELSE Normal(ResultRef(Len(results) + 1)),
                                1, FALSE)
                /\ UNCHANGED <<promises, jobs, Res_toError, input>>
      [] fn.act \in {"return", "promise"} ->
            LET n == Len(promises)
                output == IF fn.act = "promise" THEN PromiseRef(n + 1) ELSE fn.v
                made == IF fn.act = "promise" THEN <<Pending("none", 0)>> ELSE <<>>
            IN  IF isPromise(output)
                THEN /\ RoomForResult(1)
                     /\ RoomForError(1)
                     /\ promises' = promises \o
                             << Pending("then", n + 2),    \* output
                                Pending("catch", n + 3),   \* output.then(...)
                                Pending("none", 0) >>      \* (...).catch(...)
                     /\ last' = Call(op, fn, recv, None,
                                     Normal(PromiseRef(n + 3)), 1, FALSE)
                     /\ UNCHANGED <<results, jobs, Res_toError, nextId, input>>
                ELSE /\ RoomForResult(1)
                     /\ results' = Append(results, ok(output).v)
                     /\ promises' = promises \o made
                     /\ last' = Call(op, fn, recv, None,
                                     Normal(ResultRef(Len(results) + 1)), 1, FALSE)
                     /\ UNCHANGED <<jobs, Res_toError, nextId, input>>

Try_catch == \E fn \in Thunks : catch("catch", fn, 0)

\* What calling a value that is not a function throws.
NotAFunction(id) == ErrorObj(id, "TypeError", "fn is not a function")

\* Mutant of catch_block: the call is attempted outside the try statement.
catch_block_outside(completion, id) == completion

\* try { ... } catch (e) { return Res.err(e) } around a completion that is
\* not a returned value.
catch_block(completion, id) ==
    IF completion.thrown THEN err(completion.v, id) ELSE completion

\* Try.catch(x) for an x that is not a function: fn() throws a TypeError
\* inside the try statement; nothing was invoked.
Try_catch_notInvocable ==
    LET e == catch_block(Throw(NotAFunction(nextId)), nextId + 1)
        n == IF errorOf(e).id = nextId + 1 THEN 2 ELSE 1
    IN  /\ RoomForError(n)
        /\ ~e.thrown => RoomForResult(1)
        /\ nextId' = nextId + n
        /\ results' = IF e.thrown THEN results ELSE Append(results, e.v)
        /\ last' = Call("catch", [act |-> "notInvocable", v |-> input], 0, None,
                        IF e.thrown THEN e
                        ELSE Normal(ResultRef(Len(results) + 1)),
                        0, FALSE)
        /\ UNCHANGED <<promises, jobs, Res_toError, input>>

\* Try.catch(() => { const inner = Try.catch(() => { throw c });
\*                   return inner.ok ? 'success' : 'caught inner error' })
\* The inner call builds its Result first (recorded as the receiver); when
\* the inner call throws, the thunk of the outer call throws with it.
CaughtInner == Prim("string", "caught inner error")
Try_catch_nested ==
    \E c \in Causes :
        LET inner == err(c, nextId)
            outer == IF inner.thrown THEN err(inner.v, nextId + 1)
                     ELSE ok(IF isOk_of(inner.v) THEN Prim("string", "success")
                             ELSE CaughtInner)
            built == (IF inner.thrown THEN <<>> ELSE <<inner.v>>)
                        \o (IF outer.thrown THEN <<>> ELSE <<outer.v>>)
            errors == (IF created(inner) THEN 1 ELSE 0)
                        + (IF inner.thrown /\ errorOf(outer).id = nextId + 1
                           THEN 1 ELSE 0)
        IN  /\ RoomForResult(Len(built))
            /\ RoomForError(errors)
            /\ results' = results \o built
            /\ nextId' = nextId + errors
            /\ last' = Call("catch", [act |-> "nested", v |-> c],
                            IF inner.thrown THEN 0 ELSE Len(results) + 1, None,
                            IF outer.thrown THEN outer
                            ELSE Normal(ResultRef(Len(results) + Len(built))),
                            1, FALSE)
            /\ UNCHANGED <<promises, jobs, Res_toError, input>>

\* Try.init(ctor, ...args) is Try.catch(() => new ctor(...args)): the
\* constructor completes with the new instance or throws.
Constructors ==
    {[act |-> "return", v |-> Instance]} \cup [act : {"throw"}, v : Causes]
Try_init == \E fn \in Constructors : catch("init", fn, 0)

\* vet(fn): the exported shorthand is Try.catch itself.
vet == \E fn \in Thunks : catch("vet", fn, 0)

\* result.or(fn): the instance property `or` is Try.catch itself.
Res_or == \E r \in DOMAIN results, fn \in Thunks : catch("or", fn, r)

Res_ok ==
    \E v \in ReturnValues :
        /\ RoomForResult(1)
        /\ results' = Append(results, ok(v).v)
        /\ last' = Call("Res.ok", NoThunk, 0, v,
                        Normal(ResultRef(Len(results) + 1)), 0, FALSE)
        /\ UNCHANGED <<promises, jobs, Res_toError, nextId, input>>

Res_err ==
    \E c \in Causes :
        LET e == err(c, nextId)
        IN  /\ created(e) => RoomForError(1)
            /\ ~e.thrown => RoomForResult(1)
            /\ nextId' = IF created(e) THEN nextId + 1 ELSE nextId
            /\ results' = IF e.thrown THEN results ELSE Append(results, e.v)
            /\ last' = Call("Res.err", NoThunk, 0, c,
                            IF e.thrown THEN e
                            ELSE Normal(ResultRef(Len(results) + 1)),
                            0, FALSE)
            /\ UNCHANGED <<promises, jobs, Res_toError, input>>

Res_unwrap ==
    \E r \in DOMAIN results :
        /\ last' = Call("unwrap", NoThunk, r, None, unwrap(r), 0, ~isOk(r))
        /\ UNCHANGED <<results, promises, jobs, Res_toError, nextId, input>>

Res_unwrapOr ==
    \E r \in DOMAIN results, fallback \in Fallbacks :
        /\ last' = Call("unwrapOr", NoThunk, r, fallback,
                        Normal(unwrapOr(r, fallback)), 0, FALSE)
        /\ UNCHANGED <<results, promises, jobs, Res_toError, nextId, input>>

\* A boolean as a JavaScript value.
Bool(b) == Prim("boolean", IF b THEN "true" ELSE "false")

\* A read of the instance results[r] that yields v.
Read(op, r, v) ==
    /\ last' = Call(op, NoThunk, r, None, Normal(v), 0, FALSE)
    /\ UNCHANGED <<results, promises, jobs, Res_toError, nextId, input>>

Res_value == \E r \in DOMAIN results : Read("value", r, value(r))
Res_error == \E r \in DOMAIN results : Read("error", r, error(r))
Res_get_ok == \E r \in DOMAIN results : Read("ok", r, Bool(get_ok(r)))
Res_isOk == \E r \in DOMAIN results : Read("isOk", r, Bool(isOk(r)))
Res_isErr == \E r \in DOMAIN results : Read("isErr", r, Bool(isErr(r)))
\* result[0], result[1]
Res_index ==
    \E r \in DOMAIN results, i \in {0, 1} :
        /\ last' = Call("index", NoThunk, r, Prim("number", IF i = 0 THEN "0" ELSE "1"),
                        Normal(Index(r, i)), 0, FALSE)
        /\ UNCHANGED <<results, promises, jobs, Res_toError, nextId, input>>

\* Res.toError(c), called directly while the default normalization is
\* installed.
Res_toError_call ==
    \E c \in Causes :
        LET e == toError(c, nextId)
        IN  /\ Res_toError = "toError"
            /\ e.v.id = nextId => RoomForError(1)
            /\ nextId' = IF e.v.id = nextId THEN nextId + 1 ELSE nextId
            /\ last' = Call("toError", NoThunk, 0, c, e, 0, FALSE)
            /\ UNCHANGED <<results, promises, jobs, Res_toError, input>>

Res_toString ==
    \E r \in DOMAIN results :
        LET str == toString(r, nextId)
        IN  /\ str.thrown => RoomForError(1)
            /\ nextId' = IF str.thrown THEN nextId + 1 ELSE nextId
            /\ last' = Call("toString", NoThunk, r, None, str, 0, FALSE)
            /\ UNCHANGED <<results, promises, jobs, Res_toError, input>>

\* ------------------------------------------- inherited from Array.prototype
\* result.reverse(): the elements are swapped in place, the instance returned.
Array_reverse ==
    \E r \in DOMAIN results :
        /\ results' = [results EXCEPT
                          ![r] = [i \in 1 .. length(r) |-> results[r][length(r) + 1 - i]]]
        /\ last' = Call("reverse", NoThunk, r, None, Normal(ResultRef(r)), 0, FALSE)
        /\ UNCHANGED <<promises, jobs, Res_toError, nextId, input>>

\* result.pop(): the last element is removed and returned.
Array_pop ==
    \E r \in DOMAIN results :
        /\ results' = [results EXCEPT
                          ![r] = IF length(r) = 0 THEN <<>>
                                 ELSE SubSeq(results[r], 1, length(r) - 1)]
        /\ last' = Call("pop", NoThunk, r, None,
                        Normal(IF length(r) = 0 THEN Undefined
                               ELSE results[r][length(r)]), 0, FALSE)
        /\ UNCHANGED <<promises, jobs, Res_toError, nextId, input>>

\* Try.onException(handler); the record of the call keeps, as its receiver,
\* how many deferred calls were waiting for their Result when it ran.
Try_onException ==
    \E handler \in Handlers :
        /\ Res_toError' = handler
        /\ last' = Call("onException", NoThunk, Reserved, Prim("string", handler),
                        Normal(Undefined), 0, FALSE)
        /\ UNCHANGED <<results, promises, jobs, nextId, input>>

\* ----------------------------------------------------------------- host
\* A promise of the embedding program (the one a thunk returned, or the one
\* it was resolved with) fulfils with v or rejects with cause v.
Settle ==
    \E p \in DOMAIN promises, st \in {"fulfilled", "rejected"} :
        \E v \in (IF st = "fulfilled" THEN ReturnValues ELSE Causes) :
            /\ promises[p].reaction \in {"then", "adopt"}
            /\ promises[p].state = "pending"
            /\ promises' = [promises EXCEPT ![p].state = st, ![p].v = v]
            /\ jobs' = Append(jobs, p)
            /\ UNCHANGED <<results, Res_toError, nextId, last, input>>

\* The promise a thunk returned is resolved with another, new promise: it
\* stays unsettled ("following") until that promise settles, then adopts its
\* state.
ResolveWithPromise ==
    \E p \in DOMAIN promises :
        /\ promises[p].reaction = "then"
        /\ promises[p].state = "pending"
        /\ RoomForPromise(1)
        /\ promises' = Append([promises EXCEPT ![p].state = "following"],
                              Pending("adopt", p))
        /\ UNCHANGED <<results, jobs, Res_toError, nextId, last, input>>

\* Mutant of catch_reaction: the reaction is bound to the normalization the
\* library starts with, whatever handler has been installed since.
catch_reaction_bound(p, exception, id) ==
    LET e == toError(exception, id)
    IN  IF e.thrown THEN e ELSE Normal(from(<<Undefined, e.v>>))

\* (error) => Res.err(error), run as the reaction of promise p: Res.toError
\* is read when the reaction runs.
catch_reaction(p, exception, id) == err(exception, id)

\* The host runs the reaction of a settled promise and settles its child:
\*   "then"  is  output.then((value) => Res.ok(value))
\*   "catch" is  (...).catch((error) => Res.err(error))
\*   "adopt" is  the promise that follows this one taking over its state
RunJob ==
    /\ jobs # <<>>
    /\ LET p == Head(jobs)
           parent == promises[p]
           c == parent.child
           runsOk == parent.reaction = "then" /\ parent.state = "fulfilled"
           runsErr == parent.reaction = "catch" /\ parent.state = "rejected"
           e == catch_reaction(p, parent.v, nextId)
           built == runsOk \/ (runsErr /\ ~e.thrown)
           outcome ==
               IF runsOk THEN Normal(ResultRef(Len(results) + 1))
               ELSE IF runsErr
                    THEN (IF e.thrown THEN e ELSE Normal(ResultRef(Len(results) + 1)))
                    ELSE [thrown |-> parent.state = "rejected", v |-> parent.v]
       IN  /\ results' = IF runsOk THEN Append(results, ok(parent.v).v)
                         ELSE IF built THEN Append(results, e.v)
                         ELSE results
           /\ nextId' = IF runsErr /\ created(e) THEN nextId + 1 ELSE nextId
           /\ promises' = [promises EXCEPT
                             ![c].state = IF outcome.thrown THEN "rejected" ELSE "fulfilled",
                             ![c].v = outcome.v]
           /\ jobs' = Tail(jobs) \o (IF promises[c].reaction = "none" THEN <<>> ELSE <<c>>)
    /\ UNCHANGED <<Res_toError, last, input>>

\* ------------------------------------------------------- specification
Init ==
    /\ results = <<>>
    /\ promises = <<>>
    /\ jobs = <<>>
    /\ Res_toError = "toError"
    /\ nextId = FirstFreshId
    /\ last = Call("none", NoThunk, 0, None, Normal(Undefined), 0, FALSE)
    /\ input \in Inputs

\* The shape of the state: a Res instance has two slots, the second holds
\* an Error or undefined; a promise that is not pending holds a value.
TypeOK ==
    /\ Len(results) <= MaxResults
    /\ \A r \in DOMAIN results :
            /\ Len(results[r]) = 2
            /\ error(r).t \in {"undefined", "error"}
            /\ value(r).t \notin {"none", "promise", "result"}
    /\ \A p \in DOMAIN promises :
            /\ promises[p].state \in {"pending", "following", "fulfilled", "rejected"}
            /\ promises[p].state \in {"pending", "following"} <=> promises[p].v = None
            /\ promises[p].reaction \in {"then", "catch", "adopt", "none"}
            /\ promises[p].reaction # "none" => promises[p].child \in DOMAIN promises
    /\ \A i \in DOMAIN jobs : promises[jobs[i]].state \in {"fulfilled", "rejected"}
    /\ Res_toError \in Handlers
    /\ nextId \in FirstFreshId .. FirstFreshId + MaxResults + 1
    /\ input \in Inputs

\* Every call of the library's API by the embedding program and every step
\* of the host.
Next ==
    \/ Try_catch
    \/ Try_catch_nested
    \/ Try_init
    \/ vet
    \/ Res_or
    \/ Res_ok
    \/ Res_err
    \/ Res_unwrap
    \/ Res_unwrapOr
    \/ Res_value
    \/ Res_error
    \/ Res_get_ok
    \/ Res_isOk
    \/ Res_isErr
    \/ Res_index
    \/ Res_toString
    \/ Res_toError_call
    \/ Try_onException
    \/ Try_catch_notInvocable
    \/ Settle
    \/ ResolveWithPromise
    \/ RunJob

Spec == Init /\ [][Next]_vars

\* The embedding program alone: no promise a thunk returned ever settles.
NextSync ==
    \/ Try_catch
    \/ Try_init
    \/ vet
    \/ Res_or
    \/ Res_ok
    \/ Res_err
    \/ Res_unwrap
    \/ Res_unwrapOr
    \/ Res_value
    \/ Res_error
    \/ Res_get_ok
    \/ Res_isOk
    \/ Res_isErr
    \/ Res_index
    \/ Res_toString
    \/ Try_onException

SpecSync == Init /\ [][NextSync]_vars

\* The normalization of causes alone: called directly, called by Res.err,
\* and replaced by Try.onException.
NextNormalize ==
    \/ Res_toError_call
    \/ Res_err
    \/ Try_onException

SpecNormalize == Init /\ [][NextNormalize]_vars

\* Try.catch called with thunks and with values that are not functions,
\* under either handler.
NextInvocable ==
    \/ Try_catch
    \/ Try_catch_notInvocable
    \/ Try_onException

SpecInvocable == Init /\ [][NextInvocable]_vars

\* The embedding program using, besides the library's own operations, the
\* methods a Res instance inherits from Array.
NextArray ==
    \/ Try_catch
    \/ Res_value
    \/ Res_error
    \/ Res_isOk
    \/ Array_reverse
    \/ Array_pop

SpecArray == Init /\ [][NextArray]_vars

\* The calls that build Results, and the host settling promises and running
\* their reactions (no chaining with or, no read of a Result).
NextAsync ==
    \/ Try_catch
    \/ Try_init
    \/ Res_ok
    \/ Res_err
    \/ Settle
    \/ RunJob

SpecAsync == Init /\ [][NextAsync]_vars

\* Try.catch alone: calls pending side by side, calls nested in a thunk, and
\* thunks whose promise may be resolved with another promise.
NextNested ==
    \/ Try_catch
    \/ Try_catch_nested
    \/ Settle
    \/ ResolveWithPromise
    \/ RunJob

SpecNested == Init /\ [][NextNested]_vars

\* Every way a failure Result is built, with the handler replaced at any
\* moment.
NextHandler ==
    \/ Try_catch
    \/ Try_init
    \/ Res_err
    \/ Try_onException
    \/ Settle
    \/ RunJob

SpecHandler == Init /\ [][NextHandler]_vars

\* Try.catch and a host that does run the reactions of settled promises.
NextLive ==
    \/ Try_catch
    \/ Settle
    \/ RunJob

SpecLive == Init /\ [][NextLive]_vars /\ WF_vars(RunJob)

\* =============================================================== claims
\* The last call returned (did not throw) a Res instance.
ReturnedResult ==
    /\ ~last.out.thrown
    /\ last.out.v.t = "result"
    /\ last.out.v.id \in DOMAIN results
\* The Res.toError installed is the one the library starts with.
DefaultNormalization == Res_toError = "toError"
\* The Error `e` is what the default normalization makes of the cause `c`.
NormalizedAs(e, c) ==
    IF isError(c) THEN e = c
    ELSE /\ e.t = "error"
         /\ e.id >= FirstFreshId
         /\ ~String(c, 0).thrown
         /\ e.s = String(c, 0).v.s
\* The deferred calls: the promise the thunk returned and the promise
\* Try.catch returned for it.
Outputs == {p \in DOMAIN promises : promises[p].reaction = "then"}
Returned(p) == promises[promises[p].child].child

\* C1: for every non-promise value v a thunk returns without throwing
\* (null, undefined, 0, false and '' included), Try.catch(() => v) returns
\* synchronously a success Result: slot 0 is v, slot 1 is undefined, ok is true.
C1_CatchWrapsReturnedValue ==
    (last.op = "catch" /\ last.fn.act = "return") =>
        /\ ReturnedResult
        /\ value(last.out.v.id) = last.fn.v
        /\ error(last.out.v.id) = Undefined
        /\ get_ok(last.out.v.id)

C1_Witness ==
    /\ last.op = "catch"
    /\ last.fn = [act |-> "return", v |-> Null]
    /\ ReturnedResult
    /\ value(last.out.v.id) = Null

\* C2 (as claimed): for every cause c the thunk throws, Try.catch yields a
\* failure Result, error present and value undefined; the stored error is c
\* itself when c is an Error, otherwise a new Error with message String(c).
C2_ThrownCauseYieldsFailure ==
    (last.op = "catch" /\ last.fn.act = "throw" /\ DefaultNormalization) =>
        /\ ReturnedResult
        /\ value(last.out.v.id) = Undefined
        /\ error(last.out.v.id) # Undefined
        /\ NormalizedAs(error(last.out.v.id), last.fn.v)

\* C3 (as claimed): whatever fails inside the thunk, a throw or a rejection,
\* Try.catch does not throw and the promise it returns does not reject.
C3_NothingEscapes ==
    /\ last.op = "catch" => ~last.out.thrown
    /\ \A p \in Outputs : promises[Returned(p)].state # "rejected"

\* C4 (as claimed): when the thunk returns a promise, the promise Try.catch
\* returns resolves to a success Result holding v if the thunk's promise
\* fulfils with v, and to a failure Result holding the normalized cause if it
\* rejects with c (c itself if an Error, else a new Error with String(c)).
C4_DeferredOutcomeIsWrapped ==
    \A p \in Outputs :
        LET q == promises[Returned(p)]
        IN  q.state # "pending" =>
                /\ q.state = "fulfilled"
                /\ q.v.t = "result"
                /\ promises[p].state = "fulfilled" =>
                        /\ value(q.v.id) = promises[p].v
                        /\ error(q.v.id) = Undefined
                /\ promises[p].state = "rejected" =>
                        /\ value(q.v.id) = Undefined
                        /\ error(q.v.id).name # "HandledError" =>
                                NormalizedAs(error(q.v.id), promises[p].v)

\* C5 (as claimed): every Result has exactly one of its two slots present,
\* never both and never neither.
C5_ExactlyOneSlotPresent ==
    \A r \in DOMAIN results : (value(r) # Undefined) # (error(r) # Undefined)

\* C5 (amended): no Result has both slots present: when the error is present
\* the value is undefined, and when the value is present the error is
\* undefined (a success with payload undefined has both slots undefined).
C5_NeverBothSlotsPresent ==
    \A r \in DOMAIN results : ~(value(r) # Undefined /\ error(r) # Undefined)

C5_Witness ==
    \E r1, r2 \in DOMAIN results :
        /\ error(r1) # Undefined /\ value(r1) = Undefined
        /\ value(r2) # Undefined /\ error(r2) = Undefined

\* C6 (as claimed): or(nextThunk) on a success Result does not invoke
\* nextThunk and returns the original Result.
C6_OrShortCircuitsOnSuccess ==
    (last.op = "or" /\ isOk(last.recv)) =>
        /\ last.invoked = 0
        /\ last.out = Normal(ResultRef(last.recv))

\* C7 (as claimed): unwrapOr(fallback) on a success Result returns the
\* stored payload, never the fallback, also when the payload is null or
\* undefined.
C7_UnwrapOrBySuccessFlag ==
    (last.op = "unwrapOr" /\ isOk(last.recv)) =>
        last.out = Normal(value(last.recv))

\* C8: unwrapOr(fallback) returns the stored payload of a success Result
\* whose payload is neither null nor undefined (0, false and '' included),
\* and returns fallback, without throwing, for every failure Result.
C8_UnwrapOrValueOrFallback ==
    last.op = "unwrapOr" =>
        /\ ~last.out.thrown
        /\ (isOk(last.recv) /\ value(last.recv) \notin {Undefined, Null}) =>
                last.out.v = value(last.recv)
        /\ isErr(last.recv) => last.out.v = last.arg

C8_Witness ==
    /\ last.op = "unwrapOr"
    /\ isOk(last.recv)
    /\ value(last.recv) = Prim("number", "0")
    /\ last.out = Normal(Prim("number", "0"))

\* C9: unwrap() on a success Result returns the stored payload (undefined
\* included) without raising; on a failure Result it raises the stored error.
C9_UnwrapReturnsOrRaises ==
    last.op = "unwrap" =>
        /\ isOk(last.recv) => last.out = Normal(value(last.recv))
        /\ isErr(last.recv) => last.out = Throw(error(last.recv))

C9_Witness ==
    /\ last.op = "unwrap"
    /\ isErr(last.recv)
    /\ last.out = Throw(error(last.recv))

\* C10: a thunk that returns (does not throw) an Error object gets a success
\* Result: ok is true, slot 0 is that Error, slot 1 is undefined, and
\* unwrapOr(other) returns that Error.
C10_ReturnedErrorIsSuccess ==
    /\ (last.op = "catch" /\ last.fn.act = "return" /\ isError(last.fn.v)) =>
            /\ ReturnedResult
            /\ get_ok(last.out.v.id)
            /\ results[last.out.v.id] = <<last.fn.v, Undefined>>
            /\ unwrapOr(last.out.v.id, Other) = last.fn.v
    /\ (last.op = "unwrapOr" /\ isError(value(last.recv))) =>
            last.out = Normal(value(last.recv))

C10_Witness ==
    /\ last.op = "unwrapOr"
    /\ last.arg = Other
    /\ value(last.recv) = E1
    /\ get_ok(last.recv)
    /\ last.out = Normal(E1)

\* A value that stands for an outcome still to come: a promise, or an object
\* with a then method.
IsFuture(v) == v.t = "promise" \/ (v.t = "object" /\ v.name = "thenable")
\* The deferred calls whose returned promise has fulfilled.
Fulfilled == {p \in Outputs : promises[Returned(p)].state = "fulfilled"}
\* The Results Try.catch has handed out: the one the last call returned and
\* the ones its returned promises fulfilled with.
CatchResults ==
    {last.out.v.id : x \in {y \in {last.op} : y = "catch" /\ ReturnedResult}}
        \cup {promises[Returned(p)].v.id : p \in Fulfilled}
\* The promises a thunk's promise `p` was resolved with.
Inner(p) ==
    {i \in DOMAIN promises : promises[i].reaction = "adopt" /\ promises[i].child = p}

\* C11 (as claimed): the success payload of a Result produced by Try.catch is
\* never a future: whatever promise-like value the thunk returned has been
\* flattened before it was wrapped.
C11_PayloadIsNeverAFuture ==
    \A r \in CatchResults : ~IsFuture(value(r))

\* What does hold of the deferred path: the payload is never a Promise
\* instance, and a promise that was resolved with another promise yields the
\* Result of that promise's value.
NativePromiseIsFlattened ==
    /\ \A r \in CatchResults : value(r).t # "promise"
    /\ \A p \in Fulfilled : \A i \in Inner(p) :
            promises[i].state = "fulfilled" =>
                results[promises[Returned(p)].v.id] = <<promises[i].v, Undefined>>
\* A promise resolved with another promise has been flattened into a Result.
FlattenedOnce ==
    \E p \in Fulfilled : \E i \in Inner(p) :
        /\ promises[i].state = "fulfilled"
        /\ promises[i].v = Prim("number", "404")
        /\ value(promises[Returned(p)].v.id) = Prim("number", "404")

\* What `await v` yields: v itself when v is no promise, otherwise the value
\* the promise fulfilled with.
Awaited(v) == IF v.t = "promise" THEN promises[v.id].v ELSE v

\* C12 (as claimed): when the thunk throws synchronously, Try.catch returns the
\* failure Result itself, in the same call and not as a promise; awaiting what
\* it returned yields that same Result.
C12_SyncThrowReturnsFailureAtOnce ==
    (last.op = "catch" /\ last.fn.act = "throw") =>
        /\ ReturnedResult
        /\ isErr(last.out.v.id)
        /\ Awaited(last.out.v) = ResultRef(last.out.v.id)

\* The promise has fulfilled or rejected.
Settled(p) == promises[p].state \in {"fulfilled", "rejected"}
\* This step is a call of Try.catch whose thunk returns a promise.
DeferredCall ==
    /\ last' # last
    /\ last'.op \in {"catch", "or"}
    /\ last'.fn.act = "promise"
\* This step settles the promise Try.catch returned for the thunk's promise p.
Delivers(p) ==
    /\ promises[Returned(p)].state = "pending"
    /\ promises'[Returned(p)].state # "pending"

\* C13: the deferred path never blocks.  The call returns at once a promise
\* that is pending and builds no Result; a Result is built, and the returned
\* promise settled, only in a later step of the host, after the thunk's promise
\* has settled.
C13_DeferredPathNeverBlocks ==
    [][ /\ DeferredCall =>
            /\ ~last'.out.thrown
            /\ last'.out.v.t = "promise"
            /\ promises'[last'.out.v.id].state = "pending"
            /\ results' = results
        /\ \A p \in Outputs :
            \/ Settled(p)
            \/ /\ ~Delivers(p)
               /\ promises'[promises[p].child].state = "pending"
        /\ (last' = last /\ results' # results) =>
            \E p \in Outputs :
                /\ Settled(p)
                /\ jobs # <<>>
                /\ Head(jobs) \in {p, promises[p].child}
                /\ Delivers(p) \/ promises[promises[p].child].state = "pending"
      ]_vars

C13_Witness ==
    /\ last.op = "catch"
    /\ last.fn.act = "promise"
    /\ promises[last.out.v.id].state = "fulfilled"
    /\ isErr(promises[last.out.v.id].v.id)
    /\ \E p \in Outputs : Returned(p) = last.out.v.id /\ promises[p].state = "rejected"

\* C14: as long as the promise the thunk returned has not settled (pending,
\* or following a promise that has not settled), the promise Try.catch returned
\* is pending and no Result has been built for the call: nothing but the
\* thunk's promise settles it, there is no timeout and no cancellation.
C14_UnsettledStaysUnsettled ==
    \A p \in Outputs :
        ~Settled(p) =>
            /\ promises[promises[p].child].state = "pending"
            /\ promises[Returned(p)].state = "pending"
            /\ promises[Returned(p)].v = None
            /\ \A i \in DOMAIN jobs : jobs[i] \notin {p, promises[p].child}

C14_Witness ==
    \E p \in Outputs :
        /\ promises[p].state = "following"
        /\ \E i \in Inner(p) : promises[i].state = "pending"
        /\ promises[Returned(p)].state = "pending"
        /\ \E q \in Outputs \ {p} : promises[Returned(q)].state = "fulfilled"

\* C15 (as claimed): a Result is immutable after construction: no operation
\* available on the instance changes any of its slots.
C15_SlotsNeverChange ==
    [][\A r \in DOMAIN results : results'[r] = results[r]]_vars

\* C16: for every Result, isOk() and isErr() are complementary, and the ok
\* getter equals isOk(): each is true exactly when slot 1 is undefined.
C16_IsOkIsErrComplementary ==
    /\ \A r \in DOMAIN results :
            /\ isOk(r) # isErr(r)
            /\ get_ok(r) = isOk(r)
            /\ get_ok(r) <=> results[r][2] = Undefined
    /\ last.op \in {"ok", "isOk"} => last.out = Normal(Bool(results[last.recv][2] = Undefined))
    /\ last.op = "isErr" => last.out = Normal(Bool(results[last.recv][2] # Undefined))

C16_Witness ==
    /\ last.op = "isErr"
    /\ last.out = Normal(Bool(FALSE))
    /\ results[last.recv] = <<Undefined, Undefined>>
    /\ isOk(last.recv)
    /\ get_ok(last.recv)

\* C17: reading slot 0 and slot 1 by index yields what the getters value and
\* error yield, and destructuring the Result yields the same pair.
C17_IndexEqualsGetter ==
    /\ \A r \in DOMAIN results :
            /\ value(r) = results[r][1]
            /\ error(r) = results[r][2]
            /\ destructure(r) = <<value(r), error(r)>>
    /\ last.op = "value" => last.out = Normal(Index(last.recv, 0))
    /\ last.op = "error" => last.out = Normal(Index(last.recv, 1))
    /\ last.op = "index" =>
            last.out = Normal(IF last.arg.s = "0" THEN value(last.recv)
                              ELSE error(last.recv))

C17_Witness ==
    /\ last.op = "index"
    /\ last.arg.s = "1"
    /\ last.out = Normal(E1)
    /\ error(last.recv) = E1
    /\ destructure(last.recv) = <<Undefined, E1>>

\* C18: every Result Try.catch hands out, returned by the call or delivered
\* by the promise it returned, has exactly two elements, never both defined:
\* index 1 is undefined when the thunk returned or its promise fulfilled,
\* index 0 is undefined when the thunk threw or its promise rejected.
C18_TwoElementsOneUndefined ==
    /\ \A r \in CatchResults :
            /\ length(r) = 2
            /\ Index(r, 0) = Undefined \/ Index(r, 1) = Undefined
    /\ (last.op = "catch" /\ ReturnedResult) =>
            /\ last.fn.act = "return" => Index(last.out.v.id, 1) = Undefined
            /\ last.fn.act = "throw" => Index(last.out.v.id, 0) = Undefined
    /\ \A p \in Fulfilled :
            /\ promises[p].state = "fulfilled" =>
                    Index(promises[Returned(p)].v.id, 1) = Undefined
            /\ promises[p].state = "rejected" =>
                    Index(promises[Returned(p)].v.id, 0) = Undefined

C18_Witness ==
    \E p \in Fulfilled :
        /\ promises[p].state = "rejected"
        /\ length(promises[Returned(p)].v.id) = 2
        /\ Index(promises[Returned(p)].v.id, 0) = Undefined
        /\ Index(promises[Returned(p)].v.id, 1) = E2

\* The call `last` invoked its thunk once and completed as Try.catch(fn)
\* completes: a success Result of what the thunk returned, a failure Result
\* (or the failure of the normalization) for what it threw, a promise for a
\* promise.
LikeTryCatch ==
    /\ last.invoked = 1
    /\ last.fn.act = "return" =>
            /\ ReturnedResult
            /\ results[last.out.v.id] = <<last.fn.v, Undefined>>
    /\ last.fn.act = "throw" =>
            \/ last.out.thrown /\ last.out.v.id >= FirstFreshId
            \/ /\ ReturnedResult
               /\ isErr(last.out.v.id)
               /\ value(last.out.v.id) = Undefined
    /\ last.fn.act = "promise" => (~last.out.thrown /\ last.out.v.t = "promise")

\* C19 (as claimed): on a failure Result r, r.or(t) invokes t once and returns
\* what Try.catch(t) returns, and so does vet(t); hence an or whose thunk
\* fails ends in a failure Result whose unwrapOr(f) is f, and an or whose
\* thunk returns 404 ends in a Result whose unwrapOr(f) is 404.
C19_OrIsTryCatchOnFailure ==
    /\ (last.op = "vet" \/ (last.op = "or" /\ isErr(last.recv))) => LikeTryCatch
    /\ (last.op = "or" /\ isErr(last.recv)) =>
            /\ last.fn.act = "throw" =>
                    /\ ReturnedResult
                    /\ isErr(last.out.v.id)
                    /\ unwrapOr(last.out.v.id, Other) = Other
            /\ last.fn = [act |-> "return", v |-> Prim("number", "404")] =>
                    unwrapOr(last.out.v.id, Other) = Prim("number", "404")

\* This step builds a failure Result.
BuildsFailure ==
    /\ Len(results') = Len(results) + 1
    /\ results'[Len(results')][2] # Undefined
\* The cause that step wraps: the argument of Res.err, what the thunk or the
\* constructor threw, or what the promise rejected with.
WrappedCause ==
    IF last' = last THEN promises[Head(jobs)].v
    ELSE IF last'.op = "Res.err" THEN last'.arg
    ELSE last'.fn.v

\* C20: a failure Result stores what the handler installed at the time it is
\* built makes of the cause (as well when the cause is an Error), whether the
\* failure comes from a synchronous throw, a rejection, Try.init or Res.err;
\* the handler changes only in a call of Try.onException, and the Results
\* built before keep the error they store.
C20_HandlerInForceIsApplied ==
    [][ /\ BuildsFailure =>
            IF Res_toError = "Handled"
            THEN /\ results'[Len(results')] =
                        <<Undefined, ErrorObj(nextId, "HandledError", "handled")>>
                 /\ nextId' = nextId + 1
            ELSE NormalizedAs(results'[Len(results')][2], WrappedCause)
        /\ Res_toError' # Res_toError => last'.op = "onException"
        /\ last'.op = "onException" /\ last' # last => results' = results
        /\ \A r \in DOMAIN results : results'[r] = results[r]
      ]_vars

C20_Witness ==
    /\ Res_toError = "Handled"
    /\ Len(results) = 2
    /\ results[1] = <<Undefined, E1>>
    /\ error(2).name = "HandledError"
    /\ \E p \in Fulfilled :
            /\ promises[p].state = "rejected"
            /\ promises[p].v = E1
            /\ promises[Returned(p)].v = ResultRef(2)

\* C21 (as claimed): no operation of the core writes to the console: a call's
\* only observable effect is the value it returns or the error it raises.
C21_NothingIsLogged == ~last.warned

\* The deferred calls whose returned promise has settled.
Delivered == {p \in Outputs : Settled(Returned(p))}

\* C22 (as claimed): calls of Try.catch are independent.  Each deferred call,
\* whatever the order in which the promises settle, resolves to a Result of
\* its own that its own thunk's outcome determines: the value its promise
\* fulfilled with, or the normalized cause it rejected with.  A failure that a
\* Try.catch nested in a thunk captured leaves the enclosing call a success.
C22_CallsAreIndependent ==
    /\ \A p \in Delivered :
            /\ promises[Returned(p)].state = "fulfilled"
            /\ promises[Returned(p)].v.t = "result"
            /\ promises[p].state = "fulfilled" =>
                    results[promises[Returned(p)].v.id] = <<promises[p].v, Undefined>>
            /\ (promises[p].state = "rejected" /\ DefaultNormalization) =>
                    /\ value(promises[Returned(p)].v.id) = Undefined
                    /\ NormalizedAs(error(promises[Returned(p)].v.id), promises[p].v)
    /\ \A p, q \in Delivered :
            (p # q /\ promises[Returned(p)].v.t = "result") =>
                promises[Returned(p)].v # promises[Returned(q)].v
    /\ (last.op = "catch" /\ last.fn.act = "nested" /\ last.recv # 0) =>
            /\ isErr(last.recv)
            /\ ReturnedResult
            /\ last.out.v.id # last.recv
            /\ results[last.out.v.id] = <<CaughtInner, Undefined>>

\* C23: toString() of a success Result is "Result.Ok(" + String(value) + ")"
\* (and fails as String(value) fails); toString() of a failure Result is
\* "Result.Error(" + name + ": " + message + ")", the name alone when the
\* message is empty.
C23_ToStringRendersSlot ==
    last.op = "toString" =>
        IF results[last.recv][2] = Undefined
        THEN IF String(results[last.recv][1], 0).thrown
             THEN last.out.thrown /\ last.out.v.name = "TypeError"
             ELSE last.out = Normal(Prim("string",
                    "Result.Ok(" \o String(results[last.recv][1], 0).v.s \o ")"))
        ELSE last.out = Normal(Prim("string",
                "Result.Error("
                    \o (IF results[last.recv][2].s = ""
                        THEN results[last.recv][2].name
                        ELSE results[last.recv][2].name \o ": "
                                \o results[last.recv][2].s)
                    \o ")"))

C23_Witness ==
    /\ last.op = "toString"
    /\ results[last.recv] = <<Undefined, E1>>
    /\ last.out = Normal(Prim("string", "Result.Error(Error: boom)"))

\* C24 (as claimed): Try.init(ctor, ...args) never throws: it returns a
\* success Result holding the new instance when the constructor completes
\* and a failure Result holding the normalized exception when it throws, as
\* Try.catch(() => new ctor(...args)) does.
C24_InitWrapsConstructor ==
    last.op = "init" =>
        /\ last.invoked = 1
        /\ ReturnedResult
        /\ last.fn.act = "return" =>
                results[last.out.v.id] = <<Instance, Undefined>>
        /\ last.fn.act = "throw" =>
                /\ value(last.out.v.id) = Undefined
                /\ isErr(last.out.v.id)
                /\ DefaultNormalization =>
                        NormalizedAs(error(last.out.v.id), last.fn.v)

\* C26: the default normalization is pure and idempotent.  An Error is
\* returned as it is; every other cause goes through String(), giving a new
\* Error whose message is that string (or the failure of String()); applying
\* the normalization to its own result returns that same object; and a call
\* changes neither the cause, nor a Result, nor the handler installed.
C26_ToErrorPureIdempotent ==
    [][ (last' # last /\ last'.op = "toError") =>
            /\ isError(last'.arg) => last'.out = Normal(last'.arg)
            /\ ~isError(last'.arg) =>
                    IF String(last'.arg, 0).thrown
                    THEN last'.out = Throw(CannotConvert(nextId))
                    ELSE last'.out = Normal(ErrorObj(nextId, "Error",
                                                     String(last'.arg, 0).v.s))
            /\ ~last'.out.thrown =>
                    toError(last'.out.v, nextId') = Normal(last'.out.v)
            /\ UNCHANGED <<results, promises, jobs, Res_toError, input>>
      ]_vars

C26_Witness ==
    /\ last.op = "toError"
    /\ last.arg = PlainObj
    /\ last.out = Normal(ErrorObj(last.out.v.id, "Error", "[object Object]"))
    /\ toError(last.out.v, nextId) = last.out

\* C27 (as claimed): Try.catch returns a promise exactly when the thunk
\* returned an instance of Promise; when the thunk returned anything else
\* (an object with a then method included) or threw, it returns a Result
\* in the same call.
C27_PromiseIffThunkReturnedPromise ==
    last.op = "catch" =>
        /\ (~last.out.thrown /\ last.out.v.t = "promise") <=> last.fn.act = "promise"
        /\ last.fn.act # "promise" => ReturnedResult

\* Every index the promise heap can hold.
PromiseIds == 1 .. 3 * MaxResults + 1

\* The promise p is one a thunk returned, and it has settled.
SettledOutput(p) == IF p \in Outputs THEN Settled(p) ELSE FALSE
\* The promise Try.catch returned for p has fulfilled with a Result.
ResolvedWithResult(p) ==
    IF p \in Outputs
    THEN /\ promises[Returned(p)].state = "fulfilled"
         /\ promises[Returned(p)].v.t = "result"
         /\ promises[Returned(p)].v.id \in DOMAIN results
    ELSE FALSE

\* C28 (as claimed): once the promise a thunk returned has settled, fulfilled
\* or rejected, the promise Try.catch returned for it eventually fulfils with
\* a Result, provided the host keeps running the reactions of settled promises.
C28_SettledEventuallyResolves ==
    \A p \in PromiseIds : SettledOutput(p) ~> ResolvedWithResult(p)

\* C29: the handler is read when the failure is wrapped.  The reaction of a
\* rejected promise stores what the handler installed at that moment makes
\* of the cause, also when another handler was installed at the time
\* Try.catch was called.
C29_HandlerReadWhenWrapped ==
    [][ (last' = last /\ BuildsFailure) =>
            /\ jobs # <<>>
            /\ promises[Head(jobs)].reaction = "catch"
            /\ promises[Head(jobs)].state = "rejected"
            /\ promises'[promises[Head(jobs)].child].v = ResultRef(Len(results'))
            /\ results'[Len(results')] =
                    <<Undefined, apply(Res_toError, promises[Head(jobs)].v, nextId).v>>
      ]_vars

\* Try.onException installed HandledError while one deferred call was still
\* waiting for its Result; the promise rejected with E1 and the Result of
\* that call stores what HandledError makes of it.
C29_Witness ==
    /\ last.op = "onException"
    /\ last.arg = Prim("string", "Handled")
    /\ last.recv = 1
    /\ Res_toError = "Handled"
    /\ Len(promises) = 3
    /\ \E p \in Fulfilled :
            /\ promises[p].state = "rejected"
            /\ promises[p].v = E1
            /\ results[promises[Returned(p)].v.id] =
                    <<Undefined, ErrorObj(FirstFreshId, "HandledError", "handled")>>

\* C30: when the argument of Try.catch is not a function, the TypeError of
\* the attempted call is caught: Try.catch does not throw, it returns a
\* failure Result, which under the default normalization carries that
\* TypeError itself; nothing was invoked.
C30_NotInvocableIsCaptured ==
    (last.op = "catch" /\ last.fn.act = "notInvocable") =>
        /\ ReturnedResult
        /\ last.invoked = 0
        /\ value(last.out.v.id) = Undefined
        /\ isError(error(last.out.v.id))
        /\ ~get_ok(last.out.v.id)
        /\ DefaultNormalization =>
                /\ error(last.out.v.id).name = "TypeError"
                /\ error(last.out.v.id).s = "fn is not a function"
                /\ error(last.out.v.id).id = nextId - 1

\* Try.catch(undefined) under the default normalization returned a failure
\* Result holding the TypeError.
C30_Witness ==
    /\ last.op = "catch"
    /\ last.fn = [act |-> "notInvocable", v |-> Undefined]
    /\ DefaultNormalization
    /\ ReturnedResult
    /\ error(last.out.v.id).name = "TypeError"

====
